---- MODULE Spec2Model ----
(***************************************************************************)
(* Model of block_non_au_ips: the APNIC feed parser (ip_data_fetcher.py)   *)
(* and the iptables whitelist manager (iptables_manager.py), driven by     *)
(* install_firewall / remove_firewall (block_non_au_ips.py).               *)
(*                                                                         *)
(* Text is a sequence of one-character strings, so that splitting,         *)
(* case mapping, integer parsing and formatting are computed, not assumed. *)
(***************************************************************************)
EXTENDS Integers, Sequences, FiniteSets, TLC

(* ------------------------------------------------------------------ *)
(* Bounds of the model                                                 *)
(* ------------------------------------------------------------------ *)
\* number of install / remove runs in one behaviour
MaxRuns == 2
\* number of backend commands the environment makes fail in one behaviour
MaxFaults == 1
\* number of lines of a feed handed to the parser in SpecParse
MaxLines == 2
\* largest exponent k of the counts 2^k handed to count_to_cidr in SpecCount
MaxExp == 34

(* ------------------------------------------------------------------ *)
(* Python str / int primitives used by the source                      *)
(* ------------------------------------------------------------------ *)
\* decimal digits, as int() and str() read and write them
Digits == <<"0", "1", "2", "3", "4", "5", "6", "7", "8", "9">>

LowerCase == <<"a", "b", "c", "d", "e", "f", "g", "h", "i", "j", "k", "l", "m",
               "n", "o", "p", "q", "r", "s", "t", "u", "v", "w", "x", "y", "z">>

UpperCase == <<"A", "B", "C", "D", "E", "F", "G", "H", "I", "J", "K", "L", "M",
               "N", "O", "P", "Q", "R", "S", "T", "U", "V", "W", "X", "Y", "Z">>

\* characters str.strip() and int() treat as white space
WhiteSpace == {" ", "\t", "\n", "\r", "\f"}

\* characters str.splitlines() treats as a line boundary
LineBreaks == {"\n", "\r", "\f"}

IsDigit(c) == \E d \in 1..10 : Digits[d] = c

DigitVal(c) == (CHOOSE d \in 1..10 : Digits[d] = c) - 1

\* str.upper() on one character
UpperChar(c) ==
    IF \E k \in 1..26 : LowerCase[k] = c
    THEN UpperCase[CHOOSE k \in 1..26 : LowerCase[k] = c]
    ELSE c

\* str.upper()
Upper(s) == [k \in 1..Len(s) |-> UpperChar(s[k])]

\* str.startswith(prefix)
StartsWith(s, prefix) ==
    /\ Len(s) >= Len(prefix)
    /\ SubSeq(s, 1, Len(prefix)) = prefix

\* str.strip(): leading and trailing white space removed
Strip(s) ==
    LET keep == {k \in 1..Len(s) : s[k] \notin WhiteSpace}
    IN  IF keep = {} THEN <<>>
        ELSE SubSeq(s, CHOOSE k \in keep : \A m \in keep : k <= m,
                       CHOOSE k \in keep : \A m \in keep : m <= k)

\* the pieces of s between the cuts; cut k removes s[from[k]] .. s[to[k]],
\* the cuts being given in increasing order
Pieces(s, from, to) ==
    [k \in 1..(Len(from) + 1) |->
        SubSeq(s, IF k = 1 THEN 1 ELSE to[k - 1] + 1,
                  IF k = Len(from) + 1 THEN Len(s) ELSE from[k] - 1)]

\* the members of a set of positions, in increasing order
Ascending(S) ==
    [k \in 1..Cardinality(S) |->
        CHOOSE p \in S : Cardinality({q \in S : q < p}) = k - 1]

\* str.split(sep) for a one-character separator: always at least one field
Split(s, sep) ==
    LET at == Ascending({k \in 1..Len(s) : s[k] = sep})
    IN  Pieces(s, at, at)

\* str.splitlines(): "\r\n" is one boundary, no empty last line after a
\* final boundary, the empty text has no lines
SplitLines(s) ==
    LET CrLf(k) == k < Len(s) /\ s[k] = "\r" /\ s[k + 1] = "\n"
        ends == Ascending({k \in 1..Len(s) :
                              s[k] \in LineBreaks /\ ~CrLf(k)})
        from == [k \in 1..Len(ends) |->
                    IF ends[k] > 1 /\ CrLf(ends[k] - 1)
                    THEN ends[k] - 1 ELSE ends[k]]
        all == Pieces(s, from, ends)
    IN  IF all[Len(all)] = <<>> THEN SubSeq(all, 1, Len(all) - 1) ELSE all

\* the digits of int(): a digit, then digits each optionally preceded by
\* one underscore
IsDigitRun(s) ==
    /\ s # <<>>
    /\ \A k \in 1..Len(s) : IsDigit(s[k]) \/ s[k] = "_"
    /\ IsDigit(s[1])
    /\ IsDigit(s[Len(s)])
    /\ \A k \in 1..(Len(s) - 1) : ~(s[k] = "_" /\ s[k + 1] = "_")

\* A Python int is unbounded: it is kept as a sign and the decimal digits
\* of its magnitude, most significant first, without leading zeros.
DropLeadingZeros(ds) ==
    LET nz == {k \in 1..Len(ds) : ds[k] # 0}
    IN  IF nz = {} THEN <<0>>
        ELSE SubSeq(ds, CHOOSE k \in nz : \A m \in nz : k <= m, Len(ds))

\* the magnitude a digit run denotes
Magnitude(s) ==
    LET ds == SelectSeq(s, IsDigit)
    IN  DropLeadingZeros([k \in 1..Len(ds) |-> DigitVal(ds[k])])

IntZero == [neg |-> FALSE, mag |-> <<0>>]

\* int(text): [ok |-> TRUE, val |-> n], or ok = FALSE for ValueError
ParseInt(text) ==
    LET t == Strip(text)
        signed == t # <<>> /\ t[1] \in {"+", "-"}
        body == IF signed THEN SubSeq(t, 2, Len(t)) ELSE t
    IN  IF IsDigitRun(body)
        THEN [ok |-> TRUE,
              val |-> [neg |-> signed /\ t[1] = "-" /\ Magnitude(body) # <<0>>,
                       mag |-> Magnitude(body)]]
        ELSE [ok |-> FALSE, val |-> IntZero]

\* n <= 0 for a Python int
NotPositive(n) == n.neg \/ n.mag = <<0>>

\* the magnitude halved, rounding down: long division by two
Half(mag) ==
    DropLeadingZeros(
        [k \in 1..Len(mag) |->
            ((IF k > 1 THEN (mag[k - 1] % 2) * 10 ELSE 0) + mag[k]) \div 2])

\* n + 1 on a magnitude
Succ(mag) ==
    LET low == {k \in 1..Len(mag) : mag[k] # 9}
    IN  IF low = {} THEN <<1>> \o [k \in 1..Len(mag) |-> 0]
        ELSE LET j == CHOOSE k \in low : \A m \in low : m <= k
             IN  [k \in 1..Len(mag) |->
                     IF k < j THEN mag[k] ELSE IF k = j THEN mag[k] + 1 ELSE 0]

\* n - 1 on a magnitude >= 1
Pred(mag) ==
    LET nz == {k \in 1..Len(mag) : mag[k] # 0}
        j == CHOOSE k \in nz : \A m \in nz : m <= k
    IN  DropLeadingZeros(
            [k \in 1..Len(mag) |->
                IF k < j THEN mag[k] ELSE IF k = j THEN mag[k] - 1 ELSE 9])

\* 2 * n on a magnitude: each digit doubled, plus the carry of the next
Double(mag) ==
    (IF mag[1] >= 5 THEN <<1>> ELSE <<>>)
        \o [k \in 1..Len(mag) |->
               ((2 * mag[k]) % 10)
                   + (IF k < Len(mag) /\ mag[k + 1] >= 5 THEN 1 ELSE 0)]

\* 2 ** k
RECURSIVE Pow2(_)
Pow2(k) == IF k = 0 THEN <<1>> ELSE Double(Pow2(k - 1))

\* a < b on magnitudes
Less(a, b) ==
    \/ Len(a) < Len(b)
    \/ /\ Len(a) = Len(b)
       /\ \E k \in 1..Len(a) :
              a[k] < b[k] /\ \A j \in 1..(k - 1) : a[j] = b[j]

\* str(n) for n >= 0, as the f-string formats the prefix
RECURSIVE IntToStr(_)
IntToStr(n) ==
    IF n < 10 THEN <<Digits[n + 1]>>
    ELSE Append(IntToStr(n \div 10), Digits[(n % 10) + 1])

\* int(math.log2(count)) for a magnitude >= 1: the doubles log2 returns are
\* exact at powers of two and stay below the next integer for every count
\* below 2^48
RECURSIVE Log2_rounded_up(_)
Log2_rounded_up(mag) ==
    IF Len(mag) = 1 /\ mag[1] < 2 THEN 0
    ELSE 1 + Log2_rounded_up(Half(Succ(mag)))

RECURSIVE FloorLog2(_)
FloorLog2(mag) ==
    IF Len(mag) = 1 /\ mag[1] < 2 THEN 0 ELSE 1 + FloorLog2(Half(mag))

(* ------------------------------------------------------------------ *)
(* ip_data_fetcher.py                                                  *)
(* ------------------------------------------------------------------ *)
\* count_to_cidr: [ok |-> TRUE, val |-> prefix], or ok = FALSE (ValueError)
\* with err naming which of the two raises fired
count_to_cidr_zero_allowed(count) ==
    IF count.neg
    THEN [ok |-> FALSE, val |-> 0, err |-> "invalid count"]
    ELSE LET prefix_length == 32 - FloorLog2(count.mag)
         IN  IF prefix_length < 0 \/ prefix_length > 32
             THEN [ok |-> FALSE, val |-> prefix_length, err |-> "invalid prefix"]
             ELSE [ok |-> TRUE, val |-> prefix_length, err |-> "none"]

count_to_cidr(count) ==
    IF NotPositive(count)
    THEN [ok |-> FALSE, val |-> 0, err |-> "invalid count"]
    ELSE LET prefix_length == 32 - FloorLog2(count.mag)
         IN  IF prefix_length < 0 \/ prefix_length > 32
             THEN [ok |-> FALSE, val |-> prefix_length, err |-> "invalid prefix"]
             ELSE [ok |-> TRUE, val |-> prefix_length, err |-> "none"]

\* line 103: comment, header / version line, or blank line
SkippedLine(line) ==
    \/ StartsWith(line, <<"#">>)
    \/ StartsWith(line, <<"2", ".">>)
    \/ StartsWith(line, <<"2", "|">>)
    \/ Strip(line) = <<>>

\* the filter as it would be with the country code compared as written
MatchesFilter_case_sensitive(cc, res_type) ==
    /\ cc = <<"A", "U">>
    /\ res_type = <<"i", "p", "v", "4">>

\* line 115: the country / resource type filter
MatchesFilter(cc, res_type) ==
    /\ Upper(cc) = <<"A", "U">>
    /\ res_type = <<"i", "p", "v", "4">>

\* lines 117-118: the exception the try block raises for a matching record
RecordRaised(value) ==
    LET count == ParseInt(value)
    IN  IF count.ok /\ count_to_cidr(count.val).ok THEN "none" ELSE "ValueError"

\* the except clause as it would be without ValueError
Caught_type_error_only(exc) == exc = "TypeError"

\* line 121: except (ValueError, TypeError)
Caught(exc) == exc \in {"ValueError", "TypeError"}

\* lines 116-124: one matching record; the ranges it adds (none on ValueError)
RecordRanges(start, value) ==
    LET count == ParseInt(value)
        cidr_prefix == count_to_cidr(count.val)
    IN  IF count.ok /\ cidr_prefix.ok
        THEN << start \o <<"/">> \o IntToStr(cidr_prefix.val) >>
        ELSE <<>>

\* the body of the loop of parse_data for one line: the ranges it appends
LineRanges(line) ==
    IF SkippedLine(line) THEN <<>>
    ELSE LET fields == Split(line, "|")
         IN  IF Len(fields) < 7 THEN <<>>
             ELSE IF MatchesFilter(fields[2], fields[3])
                  THEN RecordRanges(fields[4], fields[5])
                  ELSE <<>>

\* the loop as it would be with each range put in front of the list
RECURSIVE ParseLines_newest_first(_)
ParseLines_newest_first(lines) ==
    IF lines = <<>> THEN <<>>
    ELSE ParseLines_newest_first(Tail(lines)) \o LineRanges(Head(lines))

RECURSIVE ParseLines(_)
ParseLines(lines) ==
    IF lines = <<>> THEN <<>>
    ELSE LineRanges(Head(lines)) \o ParseLines(Tail(lines))

\* an exception leaves the body of the loop for this line
LineEscapes(line) ==
    /\ ~SkippedLine(line)
    /\ Len(Split(line, "|")) >= 7
    /\ MatchesFilter(Split(line, "|")[2], Split(line, "|")[3])
    /\ RecordRaised(Split(line, "|")[5]) # "none"
    /\ ~Caught(RecordRaised(Split(line, "|")[5]))

\* an exception leaves parse_data
ParseEscapes(data) ==
    \E k \in 1..Len(SplitLines(data)) : LineEscapes(SplitLines(data)[k])

\* parse_data(data): the list of CIDR ranges, in input order
parse_data(data) == ParseLines(SplitLines(data))

(* ------------------------------------------------------------------ *)
(* util.py, iptables_manager.py: constants                             *)
(* ------------------------------------------------------------------ *)
CHAIN_NAME == "AU_WHITELIST"

\* the six local / private ranges of add_whitelist_rules, in listed order
CRITICAL_LOCAL_RANGES ==
    << <<"1", "2", "7", ".", "0", ".", "0", ".", "0", "/", "8">>,
       <<"1", "0", ".", "0", ".", "0", ".", "0", "/", "8">>,
       <<"1", "7", "2", ".", "1", "6", ".", "0", ".", "0", "/", "1", "2">>,
       <<"1", "9", "2", ".", "1", "6", "8", ".", "0", ".", "0", "/", "1", "6">>,
       <<"1", "6", "9", ".", "2", "5", "4", ".", "0", ".", "0", "/", "1", "6">>,
       <<"2", "2", "4", ".", "0", ".", "0", ".", "0", "/", "4">> >>

(* ------------------------------------------------------------------ *)
(* The filter table the iptables binary acts on.  A rule is the        *)
(* argument list that follows the chain name.                          *)
(*   fw.input   the rules of INPUT, first rule first                   *)
(*   fw.exists  whether the chain CHAIN_NAME exists                    *)
(*   fw.rules   the rules of CHAIN_NAME                                *)
(* ------------------------------------------------------------------ *)
JumpRule == <<"-j", CHAIN_NAME>>

DropRule == <<"-j", "DROP">>

\* a rule of the host's own, neither a jump to the chain nor a bare DROP
HostRule == <<"-i", "lo", "-j", "ACCEPT">>

AcceptRule(ip_range) == <<"-s", ip_range, "-j", "ACCEPT">>

FreshFw(rules) == [input |-> rules, exists |-> FALSE, rules |-> <<>>]

\* the INPUT rule lists a host may hold before the program first runs
HostInputs ==
    { <<>>, <<HostRule>>, <<HostRule, DropRule>>, <<DropRule, HostRule>> }

\* the position of the first rule of rs equal to rule, 0 when there is none
FirstIndex(rs, rule) ==
    IF \E k \in 1..Len(rs) : rs[k] = rule
    THEN CHOOSE k \in 1..Len(rs) :
            /\ rs[k] = rule
            /\ \A m \in 1..(k - 1) : rs[m] # rule
    ELSE 0

RemoveAt(rs, k) == SubSeq(rs, 1, k - 1) \o SubSeq(rs, k + 1, Len(rs))

Referenced(f) == \E k \in 1..Len(f.input) : f.input[k] = JumpRule

\* the target of a rule can be loaded: a jump needs its chain to exist
TargetOk(f, rule) == rule = JumpRule => f.exists

\* one run of the iptables binary on table f: its exit status (ok) and the
\* table afterwards; a failing command changes nothing
iptables(args, f) ==
    LET op == args[1]
        onInput == args[2] = "INPUT"
        fail == [ok |-> FALSE, fw |-> f]
    IN  CASE op = "-nL" ->
               [ok |-> f.exists, fw |-> f]
          [] op = "-F" ->
               IF f.exists THEN [ok |-> TRUE, fw |-> [f EXCEPT !.rules = <<>>]]
               ELSE fail
          [] op = "-X" ->
               IF f.exists /\ f.rules = <<>> /\ ~Referenced(f)
               THEN [ok |-> TRUE, fw |-> [f EXCEPT !.exists = FALSE]]
               ELSE fail
          [] op = "-N" ->
               IF ~f.exists
               THEN [ok |-> TRUE, fw |-> [f EXCEPT !.exists = TRUE, !.rules = <<>>]]
               ELSE fail
          [] op = "-A" ->
               LET rule == SubSeq(args, 3, Len(args))
               IN  IF onInput
                   THEN IF TargetOk(f, rule)
                        THEN [ok |-> TRUE,
                              fw |-> [f EXCEPT !.input = Append(@, rule)]]
                        ELSE fail
                   ELSE IF f.exists
                        THEN [ok |-> TRUE,
                              fw |-> [f EXCEPT !.rules = Append(@, rule)]]
                        ELSE fail
          [] op = "-D" ->
               LET rule == SubSeq(args, 3, Len(args))
                   k == FirstIndex(f.input, rule)
               IN  IF TargetOk(f, rule) /\ k > 0
                   THEN [ok |-> TRUE,
                         fw |-> [f EXCEPT !.input = RemoveAt(@, k)]]
                   ELSE fail
          [] op = "-I" ->
               LET rule == SubSeq(args, 4, Len(args))
               IN  IF TargetOk(f, rule)
                   THEN [ok |-> TRUE,
                         fw |-> [f EXCEPT !.input = <<rule>> \o @]]
                   ELSE fail

(* ------------------------------------------------------------------ *)
(* Registry feed texts                                                 *)
(* ------------------------------------------------------------------ *)
RECURSIVE Join(_, _)
Join(parts, sep) ==
    IF parts = <<>> THEN <<>>
    ELSE IF Len(parts) = 1 THEN Head(parts)
         ELSE Head(parts) \o <<sep>> \o Join(Tail(parts), sep)

T_apnic == <<"a", "p", "n", "i", "c">>
T_AU == <<"A", "U">>
T_au == <<"a", "u">>
T_NZ == <<"N", "Z">>
T_ipv4 == <<"i", "p", "v", "4">>
T_ipv6 == <<"i", "p", "v", "6">>
T_date == <<"2", "0", "1", "1">>
T_allocated == <<"a", "l", "l", "o", "c", "a", "t", "e", "d">>
T_net1 == <<"1", ".", "0", ".", "0", ".", "0">>
T_net2 == <<"1", ".", "0", ".", "4", ".", "0">>
T_256 == <<"2", "5", "6">>
T_1024 == <<"1", "0", "2", "4">>

Record(cc, res_type, start, value) ==
    Join(<<T_apnic, cc, res_type, start, value, T_date, T_allocated>>, "|")

\* the texts download_apnic_data hands to install_firewall in Spec
FeedOne == Record(T_AU, T_ipv4, T_net1, T_256) \o <<"\n">>

FeedTwo ==
    Join(<< Record(T_NZ, T_ipv4, T_net2, T_256),
            Record(T_au, T_ipv4, T_net2, T_1024),
            Record(T_AU, T_ipv4, T_net1, T_256) >>, "\n")

FeedNone == Record(T_NZ, T_ipv4, T_net1, T_256) \o <<"\n">>

InstallFeeds == {FeedOne, FeedTwo, FeedNone}

(* ------------------------------------------------------------------ *)
(* State                                                               *)
(* ------------------------------------------------------------------ *)
VARIABLES
    fw,         \* the filter table of the host
    pc,         \* the statement the program is at, "idle" between runs
    idx,        \* position in the loop of add_whitelist_rules
    raw_data,   \* the feed text of the run
    au_ranges,  \* the list parse_data returned
    issued,     \* the iptables commands of the current run, with their outcome
    hist,       \* one record per run: what it started from and how it ended
    faults,     \* the number of commands the environment made fail
    count,      \* the argument of a call of count_to_cidr on its own
    cidr        \* what that call returned or raised

vars == <<fw, pc, idx, raw_data, au_ranges, issued, hist, faults, count, cidr>>

\* no call of count_to_cidr on its own has been made
NoCall == [ok |-> FALSE, val |-> 0, err |-> "none"]

Init ==
    /\ fw \in {FreshFw(rules) : rules \in HostInputs}
    /\ pc = "idle"
    /\ idx = 0
    /\ raw_data = <<>>
    /\ au_ranges = <<>>
    /\ issued = <<>>
    /\ hist = <<>>
    /\ faults = 0
    /\ count = IntZero
    /\ cidr = NoCall

(* ------------------------------------------------------------------ *)
(* iptables_manager.py: run_iptables                                   *)
(* ------------------------------------------------------------------ *)
\* run_iptables(args, check) with the environment failing the command when
\* fault holds.  ok is the exit status of the command; raised says that
\* CalledProcessError leaves the method; ret is the value returned
\* otherwise: subprocess.run raises only under check, so without check the
\* method returns True whatever the exit status.
run_iptables(args, check, fault) ==
    LET done == IF fault THEN [ok |-> FALSE, fw |-> fw] ELSE iptables(args, fw)
    IN  [ok |-> done.ok,
         raised |-> check /\ ~done.ok,
         ret |-> TRUE,
         fw |-> done.fw]

\* the record of a run that has just started
StartRun(kind, ranges) ==
    [kind |-> kind, ranges |-> ranges, outcome |-> "running",
     pre |-> fw, post |-> fw, clean |-> FALSE, reported |-> 0]

NoInjected(cmds) == \A k \in 1..Len(cmds) : ~cmds[k].injected

\* the run ends: its record gets the outcome and the table it leaves
EndRun(outcome, table, cmds, reported) ==
    [hist EXCEPT ![Len(hist)] =
        [@ EXCEPT !.outcome = outcome, !.post = table,
                  !.clean = NoInjected(cmds), !.reported = reported]]

\* one call of run_iptables at statement `at`; control goes to `ifTrue` when
\* it returns True and to `ifFalse` when it returns False, and the run ends
\* with the error when it raises
Call(at, args, check, ifTrue, ifFalse) ==
    /\ pc = at
    /\ \E fault \in BOOLEAN :
        /\ fault => (faults < MaxFaults /\ iptables(args, fw).ok)
        /\ LET r == run_iptables(args, check, fault)
               cmds == Append(issued, [args |-> args, check |-> check,
                                       ok |-> r.ok, injected |-> fault])
           IN  /\ fw' = r.fw
               /\ issued' = cmds
               /\ faults' = IF fault THEN faults + 1 ELSE faults
               /\ IF r.raised
                  THEN /\ pc' = "idle"
                       /\ hist' = EndRun("error", r.fw, cmds, 0)
                  ELSE /\ pc' = IF r.ret THEN ifTrue ELSE ifFalse
                       /\ hist' = hist
    /\ UNCHANGED <<count, cidr>>

(* ------------------------------------------------------------------ *)
(* block_non_au_ips.py: install_firewall                               *)
(* ------------------------------------------------------------------ *)
\* install_firewall as it would be without the test of the empty list
install_firewall_no_empty_test ==
    /\ pc = "idle"
    /\ Len(hist) < MaxRuns
    /\ \E data \in InstallFeeds :
        /\ raw_data' = data
        /\ au_ranges' = parse_data(data)
        /\ issued' = <<>>
        /\ pc' = "create_chain_exists"
        /\ hist' = Append(hist, StartRun("install", parse_data(data)))
    /\ UNCHANGED <<fw, idx, faults, count, cidr>>

\* lines 25-30: fetch and parse; an empty list ends the run with exit(1)
install_firewall ==
    /\ pc = "idle"
    /\ Len(hist) < MaxRuns
    /\ \E data \in InstallFeeds :
        LET ranges == parse_data(data)
        IN  /\ raw_data' = data
            /\ au_ranges' = ranges
            /\ issued' = <<>>
            /\ IF ranges = <<>>
               THEN /\ pc' = "idle"
                    /\ hist' = Append(hist, [StartRun("install", ranges)
                                             EXCEPT !.outcome = "exit",
                                                    !.clean = TRUE])
               ELSE /\ pc' = "create_chain_exists"
                    /\ hist' = Append(hist, StartRun("install", ranges))
    /\ UNCHANGED <<fw, idx, faults, count, cidr>>

(* ------------------------------------------------------------------ *)
(* iptables_manager.py: create_whitelist_chain                         *)
(* ------------------------------------------------------------------ *)
create_chain_exists ==
    /\ Call("create_chain_exists", <<"-nL", CHAIN_NAME>>, FALSE,
            "create_flush", "create_new")
    /\ UNCHANGED <<idx, raw_data, au_ranges>>

create_flush ==
    /\ Call("create_flush", <<"-F", CHAIN_NAME>>, FALSE,
            "create_delete", "create_delete")
    /\ UNCHANGED <<idx, raw_data, au_ranges>>

\* create_delete as it would be with check left at True
create_delete_checked ==
    /\ Call("create_delete", <<"-X", CHAIN_NAME>>, TRUE,
            "create_new", "create_new")
    /\ UNCHANGED <<idx, raw_data, au_ranges>>

create_delete ==
    /\ Call("create_delete", <<"-X", CHAIN_NAME>>, FALSE,
            "create_new", "create_new")
    /\ UNCHANGED <<idx, raw_data, au_ranges>>

\* create_new as it would be with the failure of -N ignored
create_new_unchecked ==
    /\ Call("create_new", <<"-N", CHAIN_NAME>>, FALSE,
            "add_critical", "add_critical")
    /\ idx' = IF pc' = "add_critical" THEN 1 ELSE idx
    /\ UNCHANGED <<raw_data, au_ranges>>

create_new ==
    /\ Call("create_new", <<"-N", CHAIN_NAME>>, TRUE,
            "add_critical", "add_critical")
    /\ idx' = IF pc' = "add_critical" THEN 1 ELSE idx
    /\ UNCHANGED <<raw_data, au_ranges>>

(* ------------------------------------------------------------------ *)
(* iptables_manager.py: add_whitelist_rules                            *)
(* ------------------------------------------------------------------ *)
\* add_critical as it would be with the list walked from its end
add_critical_reversed ==
    /\ idx \in 1..Len(CRITICAL_LOCAL_RANGES)
    /\ LET after == IF idx = Len(CRITICAL_LOCAL_RANGES)
                    THEN "add_ranges" ELSE "add_critical"
           ip_range == CRITICAL_LOCAL_RANGES[Len(CRITICAL_LOCAL_RANGES) + 1 - idx]
       IN  Call("add_critical",
                <<"-A", CHAIN_NAME>> \o AcceptRule(ip_range),
                FALSE, after, after)
    /\ idx' = IF idx = Len(CRITICAL_LOCAL_RANGES) THEN 1 ELSE idx + 1
    /\ UNCHANGED <<raw_data, au_ranges>>

\* lines 72-74: one iteration of the loop over CRITICAL_LOCAL_RANGES
add_critical ==
    /\ idx \in 1..Len(CRITICAL_LOCAL_RANGES)
    /\ LET after == IF idx = Len(CRITICAL_LOCAL_RANGES)
                    THEN "add_ranges" ELSE "add_critical"
       IN  Call("add_critical",
                <<"-A", CHAIN_NAME>> \o AcceptRule(CRITICAL_LOCAL_RANGES[idx]),
                FALSE, after, after)
    /\ idx' = IF idx = Len(CRITICAL_LOCAL_RANGES) THEN 1 ELSE idx + 1
    /\ UNCHANGED <<raw_data, au_ranges>>

\* lines 81-82: one iteration of the loop over the given ranges
add_ranges ==
    /\ idx \in 1..Len(au_ranges)
    /\ LET after == IF idx = Len(au_ranges)
                    THEN "apply_unlink_jump" ELSE "add_ranges"
       IN  Call("add_ranges",
                <<"-A", CHAIN_NAME>> \o AcceptRule(au_ranges[idx]),
                FALSE, after, after)
    /\ idx' = IF idx = Len(au_ranges) THEN 0 ELSE idx + 1
    /\ UNCHANGED <<raw_data, au_ranges>>

(* ------------------------------------------------------------------ *)
(* iptables_manager.py: apply_firewall_rules                           *)
(* ------------------------------------------------------------------ *)
apply_unlink_jump ==
    /\ Call("apply_unlink_jump", <<"-D", "INPUT">> \o JumpRule, FALSE,
            "apply_unlink_drop", "apply_unlink_drop")
    /\ UNCHANGED <<idx, raw_data, au_ranges>>

apply_unlink_drop ==
    /\ Call("apply_unlink_drop", <<"-D", "INPUT">> \o DropRule, FALSE,
            "apply_insert_jump", "apply_insert_jump")
    /\ UNCHANGED <<idx, raw_data, au_ranges>>

\* apply_insert_jump as it would be with the failure of -I ignored
apply_insert_jump_unchecked ==
    /\ Call("apply_insert_jump", <<"-I", "INPUT", "1">> \o JumpRule, FALSE,
            "apply_append_drop", "apply_append_drop")
    /\ UNCHANGED <<idx, raw_data, au_ranges>>

apply_insert_jump ==
    /\ Call("apply_insert_jump", <<"-I", "INPUT", "1">> \o JumpRule, TRUE,
            "apply_append_drop", "apply_append_drop")
    /\ UNCHANGED <<idx, raw_data, au_ranges>>

apply_append_drop ==
    /\ Call("apply_append_drop", <<"-A", "INPUT">> \o DropRule, TRUE,
            "show_summary", "show_summary")
    /\ UNCHANGED <<idx, raw_data, au_ranges>>

\* block_non_au_ips.py line 38: the run completes and reports len(au_ranges)
show_summary ==
    /\ pc = "show_summary"
    /\ pc' = "idle"
    /\ hist' = EndRun("ok", fw, issued, Len(au_ranges))
    /\ UNCHANGED <<fw, idx, raw_data, au_ranges, issued, faults, count, cidr>>

(* ------------------------------------------------------------------ *)
(* block_non_au_ips.py: remove_firewall;                               *)
(* iptables_manager.py: remove_firewall_rules                          *)
(* ------------------------------------------------------------------ *)
remove_firewall ==
    /\ pc = "idle"
    /\ Len(hist) < MaxRuns
    /\ pc' = "remove_drop"
    /\ issued' = <<>>
    /\ hist' = Append(hist, StartRun("remove", <<>>))
    /\ UNCHANGED <<fw, idx, raw_data, au_ranges, faults, count, cidr>>

remove_drop ==
    /\ Call("remove_drop", <<"-D", "INPUT">> \o DropRule, FALSE,
            "remove_jump", "remove_jump")
    /\ UNCHANGED <<idx, raw_data, au_ranges>>

\* remove_jump as it would be with the DROP deleted a second time instead
remove_jump_repeats_drop ==
    /\ Call("remove_jump", <<"-D", "INPUT">> \o DropRule, FALSE,
            "remove_chain_exists", "remove_chain_exists")
    /\ UNCHANGED <<idx, raw_data, au_ranges>>

remove_jump ==
    /\ Call("remove_jump", <<"-D", "INPUT">> \o JumpRule, FALSE,
            "remove_chain_exists", "remove_chain_exists")
    /\ UNCHANGED <<idx, raw_data, au_ranges>>

remove_chain_exists ==
    /\ Call("remove_chain_exists", <<"-nL", CHAIN_NAME>>, FALSE,
            "remove_flush", "remove_done")
    /\ UNCHANGED <<idx, raw_data, au_ranges>>

remove_flush ==
    /\ Call("remove_flush", <<"-F", CHAIN_NAME>>, FALSE,
            "remove_delete", "remove_delete")
    /\ UNCHANGED <<idx, raw_data, au_ranges>>

remove_delete ==
    /\ Call("remove_delete", <<"-X", CHAIN_NAME>>, FALSE,
            "remove_done", "remove_done")
    /\ UNCHANGED <<idx, raw_data, au_ranges>>

\* line 122: remove_firewall_rules returns
remove_done ==
    /\ pc = "remove_done"
    /\ pc' = "idle"
    /\ hist' = EndRun("ok", fw, issued, 0)
    /\ UNCHANGED <<fw, idx, raw_data, au_ranges, issued, faults, count, cidr>>

Next ==
    \/ install_firewall
    \/ create_chain_exists
    \/ create_flush
    \/ create_delete
    \/ create_new
    \/ add_critical
    \/ add_ranges
    \/ apply_unlink_jump
    \/ apply_unlink_drop
    \/ apply_insert_jump
    \/ apply_append_drop
    \/ show_summary
    \/ remove_firewall
    \/ remove_drop
    \/ remove_jump
    \/ remove_chain_exists
    \/ remove_flush
    \/ remove_delete
    \/ remove_done

Spec == Init /\ [][Next]_vars

(* ------------------------------------------------------------------ *)
(* The parser on its own: parse_data applied to a feed                 *)
(* ------------------------------------------------------------------ *)
T_2 == <<"2">>
T_IPV4 == <<"I", "P", "V", "4">>
T_0 == <<"0">>
T_neg256 == <<"-", "2", "5", "6">>
T_abc == <<"a", "b", "c">>
T_300 == <<"3", "0", "0">>
T_1 == <<"1">>
T_2pow32 == <<"4", "2", "9", "4", "9", "6", "7", "2", "9", "6">>
T_2pow33 == <<"8", "5", "8", "9", "9", "3", "4", "5", "9", "2">>

L_comment == <<"#", "A", "U">>
L_blank == <<" ">>
L_header == Join(<<T_2, T_AU, T_ipv4, T_net1, T_256, T_date, T_allocated>>, "|")
L_short == Join(<<T_apnic, T_AU, T_ipv4, T_net1, T_256>>, "|")
L_extra == Record(T_AU, T_ipv4, T_net2, T_1) \o <<"|", "x">>

\* the lines the feeds of SpecParse are made of
FeedLines ==
    { L_comment, L_blank, L_header, L_short, L_extra,
      Record(T_AU, T_ipv4, T_net1, T_256),
      Record(T_au, T_ipv4, T_net2, T_1024),
      Record(T_NZ, T_ipv4, T_net2, T_256),
      Record(T_AU, T_ipv6, T_net2, T_256),
      Record(T_AU, T_IPV4, T_net2, T_256),
      Record(T_AU, T_ipv4, T_net1, T_0),
      Record(T_AU, T_ipv4, T_net1, T_neg256),
      Record(T_AU, T_ipv4, T_net1, T_abc),
      Record(T_AU, T_ipv4, T_net2, T_300),
      Record(T_AU, T_ipv4, T_net1, T_2pow32),
      Record(T_AU, T_ipv4, T_net1, T_2pow33),
      Record(T_AU, T_ipv4, <<>>, T_256) }

\* the feeds of at most MaxLines lines, the lines joined by "\n"
Feeds ==
    { Join(ls, "\n") :
        ls \in UNION { [1..n -> FeedLines] : n \in 0..MaxLines } }

InitParse ==
    /\ raw_data \in Feeds
    /\ pc = "parse_data"
    /\ fw = FreshFw(<<>>)
    /\ idx = 0
    /\ au_ranges = <<>>
    /\ issued = <<>>
    /\ hist = <<>>
    /\ faults = 0
    /\ count = IntZero
    /\ cidr = NoCall

\* block_non_au_ips.py line 26: au_ranges = fetcher.parse_data(raw_data)
parse_feed ==
    /\ pc = "parse_data"
    /\ IF ParseEscapes(raw_data)
       THEN pc' = "raised" /\ au_ranges' = au_ranges
       ELSE pc' = "parsed" /\ au_ranges' = parse_data(raw_data)
    /\ UNCHANGED <<fw, idx, raw_data, issued, hist, faults, count, cidr>>

NextParse == parse_feed

SpecParse == InitParse /\ [][NextParse]_vars

(* ------------------------------------------------------------------ *)
(* count_to_cidr on its own: one call on one count                     *)
(* ------------------------------------------------------------------ *)
\* the counts of SpecCount: the powers of two up to 2^MaxExp, their
\* neighbours on both sides, the negatives of the powers, and zero
Counts ==
    { [neg |-> FALSE, mag |-> Pow2(k)] : k \in 0..MaxExp }
    \cup { [neg |-> FALSE, mag |-> Succ(Pow2(k))] : k \in 0..MaxExp }
    \cup { [neg |-> FALSE, mag |-> Pred(Pow2(k))] : k \in 0..MaxExp }
    \cup { [neg |-> TRUE, mag |-> Pow2(k)] : k \in 0..MaxExp }

InitCount ==
    /\ count \in Counts
    /\ cidr = NoCall
    /\ pc = "count_to_cidr"
    /\ fw = FreshFw(<<>>)
    /\ idx = 0
    /\ raw_data = <<>>
    /\ au_ranges = <<>>
    /\ issued = <<>>
    /\ hist = <<>>
    /\ faults = 0

\* ip_data_fetcher.py line 118: cidr_prefix = self.count_to_cidr(count)
call_count_to_cidr ==
    /\ pc = "count_to_cidr"
    /\ cidr' = count_to_cidr(count)
    /\ pc' = IF cidr'.ok THEN "returned" ELSE "raised"
    /\ UNCHANGED <<fw, idx, raw_data, au_ranges, issued, hist, faults, count>>

NextCount == call_count_to_cidr

SpecCount == InitCount /\ [][NextCount]_vars

(* ------------------------------------------------------------------ *)
(* Vocabulary of the properties                                        *)
(* ------------------------------------------------------------------ *)
Has(rs, rule) == \E k \in 1..Len(rs) : rs[k] = rule

Count(rs, rule) == Cardinality({k \in 1..Len(rs) : rs[k] = rule})

\* a host the program has left no trace on: no chain, no jump, no DROP
Fresh(f) == ~f.exists /\ ~Has(f.input, JumpRule) /\ ~Has(f.input, DropRule)

JumpAtHead(f) == f.input # <<>> /\ f.input[1] = JumpRule

DropAtTail(f) == f.input # <<>> /\ f.input[Len(f.input)] = DropRule

\* whether a run has happened, and the record of the latest one
Ran == hist # <<>>

Last == hist[Len(hist)]

Ended(run) == run.outcome # "running"

\* the table the behaviour started from
Started == IF Ran THEN hist[1].pre ELSE fw

\* the commands of the source that must succeed (check left at True)
NewChainCmd == <<"-N", CHAIN_NAME>>

InsertJumpCmd == <<"-I", "INPUT", "1">> \o JumpRule

AppendDropCmd == <<"-A", "INPUT">> \o DropRule

Structural(args) == args \in {NewChainCmd, InsertJumpCmd, AppendDropCmd}

\* the cleanup commands of install
Cleanup(args) ==
    args \in { <<"-F", CHAIN_NAME>>, <<"-X", CHAIN_NAME>>,
               <<"-D", "INPUT">> \o JumpRule, <<"-D", "INPUT">> \o DropRule }

IsChainAppend(c) == c.args[1] = "-A" /\ c.args[2] = CHAIN_NAME

\* the ACCEPT rules a complete population of the chain consists of
Population(ranges) ==
    [k \in 1..(Len(CRITICAL_LOCAL_RANGES) + Len(ranges)) |->
        AcceptRule(IF k <= Len(CRITICAL_LOCAL_RANGES)
                   THEN CRITICAL_LOCAL_RANGES[k]
                   ELSE ranges[k - Len(CRITICAL_LOCAL_RANGES)])]

\* the table one complete install leaves on a fresh host
Installed(start, ranges) ==
    [input |-> <<JumpRule>> \o start.input \o <<DropRule>>,
     exists |-> TRUE,
     rules |-> Population(ranges)]

(* ------------------------------------------------------------------ *)
(* C1  Idempotent install                                              *)
(* ------------------------------------------------------------------ *)
\* C1: two installs in succession on a fresh host with the same ranges, no
\* command made to fail, both complete, and the second leaves the table the
\* first left: one jump at the head of INPUT, one DROP at its tail.
C1_IdempotentInstall ==
    \A k \in 1..(Len(hist) - 1) :
        ( /\ hist[k].kind = "install" /\ hist[k + 1].kind = "install"
          /\ Fresh(hist[k].pre)
          /\ hist[k].ranges = hist[k + 1].ranges /\ hist[k].ranges # <<>>
          /\ hist[k].clean /\ Ended(hist[k + 1]) /\ hist[k + 1].clean )
        => /\ hist[k].outcome = "ok"
           /\ hist[k + 1].outcome = "ok"
           /\ hist[k + 1].post = hist[k].post
           /\ JumpAtHead(hist[k + 1].post)
           /\ DropAtTail(hist[k + 1].post)
           /\ Count(hist[k + 1].post.input, JumpRule) = 1
           /\ Count(hist[k + 1].post.input, DropRule) = 1

(* ------------------------------------------------------------------ *)
(* C2  No lockout of the mandatory ranges                              *)
(* ------------------------------------------------------------------ *)
\* C2: in every state reached from a fresh host, a DROP at the tail of INPUT
\* comes with the jump at its head and an ACCEPT rule in the chain for each
\* of the six local / private ranges.
C2_NoLockout ==
    ( Fresh(Started) /\ DropAtTail(fw) )
    => /\ JumpAtHead(fw)
       /\ fw.exists
       /\ \A k \in 1..Len(CRITICAL_LOCAL_RANGES) :
              Has(fw.rules, AcceptRule(CRITICAL_LOCAL_RANGES[k]))

(* ------------------------------------------------------------------ *)
(* C3  Convergence after a partial failure                             *)
(* ------------------------------------------------------------------ *)
\* C3: an install that a structural command aborted, followed by an install
\* of the same ranges in which no command is made to fail: the second
\* completes and leaves the table of one install on the fresh host.
C3_ConvergesAfterAbort ==
    \A k \in 1..(Len(hist) - 1) :
        ( /\ Fresh(Started)
          /\ hist[k].kind = "install" /\ hist[k].outcome = "error"
          /\ hist[k + 1].kind = "install"
          /\ hist[k + 1].ranges = hist[k].ranges
          /\ Ended(hist[k + 1]) /\ hist[k + 1].clean )
        => /\ hist[k + 1].outcome = "ok"
           /\ hist[k + 1].post = Installed(Started, hist[k + 1].ranges)

(* ------------------------------------------------------------------ *)
(* C4  Round trip                                                      *)
(* ------------------------------------------------------------------ *)
\* C4: a completed install on a fresh host followed by an uninstall whose
\* commands the environment lets through leaves no jump, no DROP and no
\* chain: the table the install started from.
C4_RoundTrip ==
    \A k \in 1..(Len(hist) - 1) :
        ( /\ hist[k].kind = "install" /\ hist[k].outcome = "ok"
          /\ Fresh(hist[k].pre)
          /\ hist[k + 1].kind = "remove"
          /\ Ended(hist[k + 1]) /\ hist[k + 1].clean )
        => /\ hist[k + 1].outcome = "ok"
           /\ ~Has(hist[k + 1].post.input, JumpRule)
           /\ ~Has(hist[k + 1].post.input, DropRule)
           /\ ~hist[k + 1].post.exists
           /\ hist[k + 1].post = hist[k].pre

\* C4 witness: an uninstall has ended after a completed install on a fresh
\* host that left the chain populated and linked
C4_Witness ==
    /\ Len(hist) >= 2
    /\ hist[1].kind = "install" /\ hist[1].outcome = "ok"
    /\ Fresh(hist[1].pre) /\ hist[1].pre.input # <<>>
    /\ JumpAtHead(hist[1].post) /\ DropAtTail(hist[1].post)
    /\ hist[2].kind = "remove" /\ hist[2].outcome = "ok" /\ hist[2].clean
    /\ pc = "idle"

(* ------------------------------------------------------------------ *)
(* C5  Link ordering                                                   *)
(* ------------------------------------------------------------------ *)
\* C5: in a run, the append of the DROP is issued only after the insert of
\* the jump succeeded in that run, and never after the creation of the
\* chain or the insert of the jump failed.
C5_LinkOrdering ==
    \A i \in 1..Len(issued) :
        issued[i].args = AppendDropCmd
        => /\ \E j \in 1..(i - 1) :
                  issued[j].args = InsertJumpCmd /\ issued[j].ok
           /\ \A j \in 1..Len(issued) :
                  issued[j].args \in {NewChainCmd, InsertJumpCmd}
                  => issued[j].ok

\* C5 witness: a run in which the insert of the jump failed has ended, and
\* another in which the DROP was appended
C5_Witness ==
    /\ Len(hist) >= 2
    /\ hist[1].kind = "install" /\ hist[1].outcome = "error"
    /\ ~Has(hist[1].post.input, DropRule)
    /\ hist[1].post.rules # <<>>
    /\ \E i \in 1..Len(issued) : issued[i].args = AppendDropCmd /\ issued[i].ok

(* ------------------------------------------------------------------ *)
(* C6  Failure classification                                          *)
(* ------------------------------------------------------------------ *)
\* the statement after each cleanup statement of install
AfterCleanup(at) ==
    CASE at = "create_flush" -> "create_delete"
      [] at = "create_delete" -> "create_new"
      [] at = "apply_unlink_jump" -> "apply_unlink_drop"
      [] at = "apply_unlink_drop" -> "apply_insert_jump"
      [] OTHER -> "none"

\* a step of an install run that issues a command, and that command
Issues == Ran /\ Last.kind = "install" /\ Len(issued') = Len(issued) + 1

Issuing == issued'[Len(issued')]

\* C6: in an install, a failed structural command ends the run with the
\* error, is the last command of the run and leaves the table as it was; a
\* failed cleanup command leaves the table as it was and the run goes on
\* with the next statement.
C6_FailureClassification ==
    /\ [][ (Issues /\ ~Issuing.ok /\ Structural(Issuing.args))
           => /\ fw' = fw
              /\ pc' = "idle"
              /\ hist'[Len(hist')].outcome = "error"
              /\ hist'[Len(hist')].post = fw ]_vars
    /\ [][ (Issues /\ ~Issuing.ok /\ Cleanup(Issuing.args))
           => /\ fw' = fw
              /\ pc' = AfterCleanup(pc)
              /\ hist' = hist ]_vars
    /\ [] ( \A i \in 1..Len(issued) :
               (Ran /\ Last.kind = "install"
                    /\ ~issued[i].ok /\ Structural(issued[i].args))
               => i = Len(issued) /\ pc = "idle" /\ Last.outcome = "error" )

\* C6 witness: an install in which a cleanup command failed and the run went
\* on, and which a failed structural command then ended
C6_Witness ==
    /\ Ran /\ Last.kind = "install" /\ Last.outcome = "error" /\ pc = "idle"
    /\ \E i \in 1..Len(issued) : ~issued[i].ok /\ Cleanup(issued[i].args)
    /\ ~issued[Len(issued)].ok /\ Structural(issued[Len(issued)].args)
    /\ Last.post = fw

(* ------------------------------------------------------------------ *)
(* C7  Mandatory-first ordering                                        *)
(* ------------------------------------------------------------------ *)
\* the appends to the chain among the commands of the run, in issue order
ChainAppends == SelectSeq(issued, IsChainAppend)

PastPopulation ==
    \/ pc \in {"apply_unlink_jump", "apply_unlink_drop", "apply_insert_jump",
               "apply_append_drop", "show_summary"}
    \/ pc = "idle" /\ Last.outcome = "ok"

\* C7: the appends an install issues to the chain are the six mandatory
\* ranges in listed order, then the given ranges in given order, each with
\* target ACCEPT: at every moment a prefix of that list, and all of it once
\* add_whitelist_rules has returned.
C7_MandatoryFirst ==
    (Ran /\ Last.kind = "install")
    => /\ Len(ChainAppends) <= Len(Population(au_ranges))
       /\ \A k \in 1..Len(ChainAppends) :
              ChainAppends[k].args
                  = <<"-A", CHAIN_NAME>> \o Population(au_ranges)[k]
       /\ PastPopulation
              => Len(ChainAppends) = Len(Population(au_ranges))

\* C7 witness: add_whitelist_rules has returned for a list of two ranges
C7_Witness ==
    /\ Ran /\ Last.kind = "install" /\ pc = "apply_unlink_jump"
    /\ Len(au_ranges) = 2
    /\ Len(ChainAppends) = Len(CRITICAL_LOCAL_RANGES) + 2

(* ------------------------------------------------------------------ *)
(* C8  Uninstall on empty state                                        *)
(* ------------------------------------------------------------------ *)
\* C8: an uninstall started with no chain and no jump in INPUT ends without
\* error and leaves the rules of INPUT and the chains as they were.
C8_UninstallNoop ==
    \A k \in 1..Len(hist) :
        ( /\ hist[k].kind = "remove" /\ Ended(hist[k])
          /\ ~hist[k].pre.exists /\ ~Has(hist[k].pre.input, JumpRule) )
        => /\ hist[k].outcome = "ok"
           /\ hist[k].post = hist[k].pre

(* ------------------------------------------------------------------ *)
(* C9  Clean chain                                                     *)
(* ------------------------------------------------------------------ *)
\* the rules the successful appends of the run added, in issue order
Appended ==
    LET done == SelectSeq(ChainAppends, LAMBDA c : c.ok)
    IN  [k \in 1..Len(done) |-> SubSeq(done[k].args, 3, 6)]

\* C9: when create_whitelist_chain has returned, the chain exists and is
\* empty; after a completed install the chain holds the rules that run
\* appended and no other, which are the mandatory ranges and the ranges of
\* that install when every append succeeded.
C9_CleanChain ==
    /\ (pc = "add_critical" /\ idx = 1) => (fw.exists /\ fw.rules = <<>>)
    /\ (Ran /\ Last.kind = "install" /\ Last.outcome = "ok" /\ pc = "idle")
       => /\ fw.rules = Appended
          /\ (\A k \in 1..Len(ChainAppends) : ChainAppends[k].ok)
             => fw.rules = Population(Last.ranges)

\* C9 witness: create_whitelist_chain has returned in a run that found a
\* populated chain
C9_Witness ==
    /\ pc = "add_critical" /\ idx = 1
    /\ Last.pre.exists /\ Last.pre.rules # <<>>
    /\ fw.rules = <<>>

(* ------------------------------------------------------------------ *)
(* C10  Parser filtering                                               *)
(* ------------------------------------------------------------------ *)
\* the spellings that equal AU when case is ignored
AUForms == { <<"A", "U">>, <<"A", "u">>, <<"a", "U">>, <<"a", "u">> }

\* a data line: not blank, not a comment, not a header or version line
IsDataLine(line) ==
    /\ \E k \in 1..Len(line) : line[k] \notin WhiteSpace
    /\ line[1] # "#"
    /\ ~(Len(line) >= 2 /\ line[1] = "2" /\ line[2] \in {".", "|"})

\* a data line of at least 7 fields for AU and ipv4
IsAuIpv4Record(line) ==
    /\ IsDataLine(line)
    /\ Len(Split(line, "|")) >= 7
    /\ Split(line, "|")[2] \in AUForms
    /\ Split(line, "|")[3] = <<"i", "p", "v", "4">>

\* the count of the record yields a prefix
HasValidPrefix(line) ==
    /\ ParseInt(Split(line, "|")[5]).ok
    /\ count_to_cidr(ParseInt(Split(line, "|")[5]).val).ok

\* start/prefix of the record
RangeOf(line) ==
    Split(line, "|")[4] \o <<"/">>
        \o IntToStr(count_to_cidr(ParseInt(Split(line, "|")[5]).val).val)

\* the positions of the lines of the feed that the claim says are accepted
AcceptedLines ==
    { k \in 1..Len(SplitLines(raw_data)) :
        /\ IsAuIpv4Record(SplitLines(raw_data)[k])
        /\ HasValidPrefix(SplitLines(raw_data)[k]) }

\* C10: every element of the output of parse_data is start/prefix of a data
\* line of at least 7 fields whose country code is AU in any case and whose
\* type is exactly ipv4; every such line with a valid prefix gives its
\* element (a count of 256 gives /24); no other line gives an element.
C10_ParserFiltering ==
    pc = "parsed"
    => /\ \A i \in 1..Len(au_ranges) :
              \E k \in AcceptedLines :
                  au_ranges[i] = RangeOf(SplitLines(raw_data)[k])
       /\ \A k \in AcceptedLines :
              \E i \in 1..Len(au_ranges) :
                  au_ranges[i] = RangeOf(SplitLines(raw_data)[k])
       /\ Len(au_ranges) = Cardinality(AcceptedLines)
       /\ \A k \in AcceptedLines :
              Split(SplitLines(raw_data)[k], "|")[5] = T_256
              => \E i \in 1..Len(au_ranges) :
                     au_ranges[i] = Split(SplitLines(raw_data)[k], "|")[4]
                                        \o <<"/", "2", "4">>

\* C10 witness: a feed of a lower-case au record and a record of another
\* country has been parsed to the one range of the au record
C10_Witness ==
    /\ pc = "parsed"
    /\ SplitLines(raw_data) = << Record(T_NZ, T_ipv4, T_net2, T_256),
                                 Record(T_au, T_ipv4, T_net2, T_1024) >>
    /\ au_ranges = << T_net2 \o <<"/", "2", "2">> >>

(* ------------------------------------------------------------------ *)
(* C11  Prefix derivation                                              *)
(* ------------------------------------------------------------------ *)
\* C11: count_to_cidr returns 32 - k for the count 2^k, for every k in
\* 0..32; it fails with the invalid-count error for zero and for every
\* negative count; whatever it returns lies in 0..32.
C11_PrefixDerivation ==
    pc \in {"returned", "raised"}
    => /\ \A k \in 0..32 :
              count = [neg |-> FALSE, mag |-> Pow2(k)]
              => pc = "returned" /\ cidr.val = 32 - k
       /\ (count.neg \/ count.mag = <<0>>)
              => pc = "raised" /\ cidr.err = "invalid count"
       /\ pc = "returned" => cidr.val \in 0..32

\* C11 witness: the call has returned 0 for the count 2^32
C11_Witness ==
    /\ pc = "returned"
    /\ count = [neg |-> FALSE, mag |-> <<4, 2, 9, 4, 9, 6, 7, 2, 9, 6>>]
    /\ cidr.val = 0

(* ------------------------------------------------------------------ *)
(* C12  Parser robustness                                              *)
(* ------------------------------------------------------------------ *)
\* a line the claim says is skipped: a comment, blank, header or version
\* line, a line of fewer than 7 fields, or an AU ipv4 record whose count
\* yields no prefix
SkippedByClaim(line) ==
    \/ ~IsDataLine(line)
    \/ Len(Split(line, "|")) < 7
    \/ IsAuIpv4Record(line) /\ ~HasValidPrefix(line)

\* the feed without its line k
WithoutLine(k) ==
    LET lines == SplitLines(raw_data)
    IN  Join(SubSeq(lines, 1, k - 1) \o SubSeq(lines, k + 1, Len(lines)), "\n")

\* C12: parse_data ends without an error on every feed; a line the claim
\* says is skipped gives no element and the output is what the feed gives
\* without that line; a line accepted after such lines still gives its
\* element; a feed of skipped lines only gives the empty list.
C12_ParserRobustness ==
    pc # "parse_data"
    => /\ pc = "parsed"
       /\ \A k \in 1..Len(SplitLines(raw_data)) :
              SkippedByClaim(SplitLines(raw_data)[k])
              => /\ k \notin AcceptedLines
                 /\ parse_data(WithoutLine(k)) = au_ranges
       /\ Len(SplitLines(raw_data)) \in AcceptedLines
              => /\ au_ranges # <<>>
                 /\ au_ranges[Len(au_ranges)]
                        = RangeOf(SplitLines(raw_data)[Len(SplitLines(raw_data))])
       /\ (\A k \in 1..Len(SplitLines(raw_data)) :
               SkippedByClaim(SplitLines(raw_data)[k]))
              => au_ranges = <<>>

\* C12 witness: a feed of a record with a non-numeric count and a valid
\* record has been parsed to the range of the valid record
C12_Witness ==
    /\ pc = "parsed"
    /\ SplitLines(raw_data) = << Record(T_AU, T_ipv4, T_net1, T_abc),
                                 Record(T_AU, T_ipv4, T_net1, T_256) >>
    /\ au_ranges = << T_net1 \o <<"/", "2", "4">> >>

(* ------------------------------------------------------------------ *)
(* C13  Order preservation                                             *)
(* ------------------------------------------------------------------ *)
\* the position in the feed of the i-th accepted line
NthAccepted(i) ==
    CHOOSE k \in AcceptedLines :
        Cardinality({j \in AcceptedLines : j <= k}) = i

\* C13: the output of parse_data has one element per accepted line, the
\* i-th element being start/prefix of the i-th accepted line of the feed:
\* input order is kept and equal records each give their element.
C13_OrderPreserved ==
    pc = "parsed"
    => /\ Len(au_ranges) = Cardinality(AcceptedLines)
       /\ \A i \in 1..Len(au_ranges) :
              au_ranges[i] = RangeOf(SplitLines(raw_data)[NthAccepted(i)])

\* C13 witness: a feed of two accepted records, the higher address first,
\* has been parsed to their two ranges in that order
C13_Witness ==
    /\ pc = "parsed"
    /\ SplitLines(raw_data) = << Record(T_au, T_ipv4, T_net2, T_1024),
                                 Record(T_AU, T_ipv4, T_net1, T_256) >>
    /\ au_ranges = << T_net2 \o <<"/", "2", "2">>,
                      T_net1 \o <<"/", "2", "4">> >>

(* ------------------------------------------------------------------ *)
(* C14  Validated output                                               *)
(* ------------------------------------------------------------------ *)
\* one to three decimal digits denoting at most 255
IsOctet(t) ==
    /\ Len(t) \in 1..3
    /\ \A j \in 1..Len(t) : IsDigit(t[j])
    /\ Len(t) = 3
           => 100 * DigitVal(t[1]) + 10 * DigitVal(t[2]) + DigitVal(t[3]) <= 255

\* four octets separated by dots
IsDottedQuad(t) ==
    /\ Len(Split(t, ".")) = 4
    /\ \A k \in 1..4 : IsOctet(Split(t, ".")[k])

\* the decimal text of a number in 0..32
IsPrefixText(t) == \E n \in 0..32 : t = IntToStr(n)

\* C14: every element of the output of parse_data is a dotted-quad IPv4
\* address, a slash and a prefix length in 0..32, whatever the feed.
C14_ValidatedOutput ==
    pc = "parsed"
    => \A i \in 1..Len(au_ranges) :
           /\ Len(Split(au_ranges[i], "/")) = 2
           /\ IsDottedQuad(Split(au_ranges[i], "/")[1])
           /\ IsPrefixText(Split(au_ranges[i], "/")[2])

(* ------------------------------------------------------------------ *)
(* C15  Uninstall postcondition                                        *)
(* ------------------------------------------------------------------ *)
\* C15: in every state reached from a fresh host by installs (completed or
\* aborted) and uninstalls, an uninstall ends without an error and leaves
\* no jump to the chain, no unconditional DROP and no chain.
C15_UninstallPostcondition ==
    \A k \in 1..Len(hist) :
        (hist[k].kind = "remove" /\ Ended(hist[k]) /\ Fresh(Started))
        => /\ hist[k].outcome = "ok"
           /\ ~Has(hist[k].post.input, JumpRule)
           /\ ~Has(hist[k].post.input, DropRule)
           /\ ~hist[k].post.exists

(* ------------------------------------------------------------------ *)
(* C16  Reported rule count                                            *)
(* ------------------------------------------------------------------ *)
\* C16: the count a completed install reports is the number of ACCEPT
\* rules the chain holds when it completes, the mandatory ranges and the
\* country ranges together, also when an append failed.
C16_ReportedCount ==
    \A k \in 1..Len(hist) :
        (hist[k].kind = "install" /\ hist[k].outcome = "ok")
        => hist[k].reported = Len(hist[k].post.rules)

(* ------------------------------------------------------------------ *)
(* C17  Non-power-of-two counts                                        *)
(* ------------------------------------------------------------------ *)
\* C17: for a count c >= 1 below 2^33 that is no power of two,
\* count_to_cidr returns a prefix p in 0..32 with 2^(32-p) < c < 2^(33-p);
\* for a count of 2^33 or more it fails with the invalid-prefix error.
C17_NonPowerOfTwo ==
    (pc \in {"returned", "raised"} /\ ~count.neg /\ count.mag # <<0>>)
    => /\ ( /\ Less(count.mag, Pow2(33))
            /\ \A k \in 0..32 : count.mag # Pow2(k) )
          => /\ pc = "returned"
             /\ cidr.val \in 0..32
             /\ Less(Pow2(32 - cidr.val), count.mag)
             /\ Less(count.mag, Pow2(33 - cidr.val))
       /\ ~Less(count.mag, Pow2(33))
          => pc = "raised" /\ cidr.err = "invalid prefix"

\* C17 witness: the call has returned 0 for the count 2^32 + 1
C17_Witness ==
    /\ pc = "returned"
    /\ count = [neg |-> FALSE, mag |-> <<4, 2, 9, 4, 9, 6, 7, 2, 9, 7>>]
    /\ cidr.val = 0

(* ------------------------------------------------------------------ *)
(* C18  Empty result aborts before the firewall is touched             *)
(* ------------------------------------------------------------------ *)
\* C18: an install whose parse gave the empty list ends at once with the
\* exit, having issued no command, and the table is the one it started
\* from; no other install ends that way.
C18_EmptyResultAborts ==
    \A k \in 1..Len(hist) :
        hist[k].kind = "install"
        => /\ hist[k].ranges = <<>>
              => /\ hist[k].outcome = "exit"
                 /\ hist[k].post = hist[k].pre
                 /\ k = Len(hist)
                       => pc = "idle" /\ issued = <<>> /\ fw = hist[k].pre
           /\ hist[k].outcome = "exit" => hist[k].ranges = <<>>

\* C18 witness: an install of a feed without ranges has ended on a host
\* that a completed install had left with the chain linked
C18_Witness ==
    /\ Len(hist) = 2 /\ pc = "idle"
    /\ hist[1].kind = "install" /\ hist[1].outcome = "ok"
    /\ hist[2].kind = "install" /\ hist[2].outcome = "exit"
    /\ raw_data = FeedNone
    /\ JumpAtHead(fw) /\ DropAtTail(fw) /\ fw.rules # <<>>

(* ------------------------------------------------------------------ *)
(* C19  Round trip over pre-existing rules                             *)
(* ------------------------------------------------------------------ *)
\* C19: a completed install on a host whose INPUT holds no jump to the
\* chain (it may hold a DROP of its own), followed by an uninstall, no
\* command made to fail in either, leaves INPUT with the rules it had
\* before the install, in their order.
C19_RoundTripPreExisting ==
    \A k \in 1..(Len(hist) - 1) :
        ( /\ hist[k].kind = "install" /\ hist[k].outcome = "ok"
          /\ hist[k].clean
          /\ ~Has(hist[k].pre.input, JumpRule)
          /\ hist[k + 1].kind = "remove"
          /\ Ended(hist[k + 1]) /\ hist[k + 1].clean )
        => hist[k + 1].post.input = hist[k].pre.input

====
